---- MODULE Spec2Model ----
(***************************************************************************)
(* simview: the run aggregator (SimView), the scene model (SimViewModel),  *)
(* the cache files it writes, the delivery server (SimViewServer) and the  *)
(* file-backed Visualizer of app.py.                                       *)
(*                                                                         *)
(* Python values are modelled with one TLA+ shape per kind of value:       *)
(*   Optional[x]   the sequence <<>> (None) or <<x>>;                      *)
(*   a frame       a function from its keys to [kind, data] values;        *)
(*   a file        [exists, text]; a JSON text is complete (closed) or a   *)
(*                 prefix (json.dump writes the text chunk by chunk).      *)
(***************************************************************************)
EXTENDS Integers, Sequences, FiniteSets, TLC

\* ---------------------------------------------------------------- bounds
MaxFrames == 2
MaxTime == 1

\* One slot for a SimView object; a later object of the program (or of a
\* later session) takes the slot over.
RunIds == {1}
Times == 0..MaxTime
Names == {"a"}

\* ------------------------------------------------------- Optional values
None == <<>>
Some(x) == <<x>>
IsNone(o) == Len(o) = 0
Get(o) == o[1]

\* -------------------------------------------------------- scene model
\* SimViewTerrain.to_json: the wire names of the terrain's fields.
TerrainToJson(t) ==
    [heightData |-> t.height_data, isSingleton |-> t.is_singleton]

\* SimViewBody.to_json: name and shape (no available attributes declared).
BodyToJson(b) == [name |-> b.name, shape |-> b.shape]

\* The dataclass SimViewModel; bodies is the dict body name -> body, kept as
\* the sequence of its items in insertion order: the key and the body's
\* name and shape.
SimViewModel(batch_size, scalar_names, dt, collapse, terrain, bodies) ==
    [batch_size |-> batch_size, scalar_names |-> scalar_names, dt |-> dt,
     collapse |-> collapse, terrain |-> terrain, bodies |-> bodies]

\* Faulty variant: completeness that does not ask for a terrain.
IsCompleteIgnoresTerrain(m) == ~IsNone(m.bodies) /\ Len(Get(m.bodies)) > 0

\* SimViewModel.is_complete
is_complete(m) == ~IsNone(m.bodies) /\ Len(Get(m.bodies)) > 0 /\ ~IsNone(m.terrain)

\* Faulty variant: to_json that serializes whatever the model holds.
ModelToJsonErrorNever(m) == ""

\* The first failing check of SimViewModel.to_json, "" when it passes.
ModelToJsonError(m) ==
    IF IsNone(m.bodies) \/ Len(Get(m.bodies)) = 0 THEN "ValueError: No bodies defined"
    ELSE IF IsNone(m.terrain) THEN "ValueError: No terrain defined"
    ELSE ""

\* The document SimViewModel.to_json returns when no check fails.
ModelToJson(m) ==
    [batchSize |-> m.batch_size, scalarNames |-> m.scalar_names, dt |-> m.dt,
     collapse |-> m.collapse, terrain |-> TerrainToJson(Get(m.terrain)),
     bodies |-> [i \in 1..Len(Get(m.bodies)) |-> BodyToJson(Get(m.bodies)[i])]]

\* An item of the bodies dict.
Item(key, body) == [key |-> key, name |-> body.name, shape |-> body.shape]

\* The bodies dict of a model ({} for None), and its keys.
Bodies(m) == IF IsNone(m.bodies) THEN <<>> ELSE Get(m.bodies)
BodyKeys(m) == {Bodies(m)[i].key : i \in 1..Len(Bodies(m))}

\* bodies[key] = body: a present key keeps its place, a new one is added
\* at the end.
DictSet(items, key, body) ==
    IF \E i \in 1..Len(items) : items[i].key = key
    THEN [i \in 1..Len(items) |->
             IF items[i].key = key THEN Item(key, body) ELSE items[i]]
    ELSE Append(items, Item(key, body))

\* SimViewModel.add_terrain: the exception, and the model it leaves.
AddTerrainError(m) ==
    IF ~IsNone(m.terrain) THEN "ValueError: Terrain already exists" ELSE ""

add_terrain(m, terrain) ==
    IF AddTerrainError(m) # "" THEN m ELSE [m EXCEPT !.terrain = Some(terrain)]

\* Faulty variant: a colliding name is not refused.
AddBodyErrorNever(m, body_name) == ""

\* SimViewModel.add_body: bodies None becomes {} before the name is tested.
AddBodyError(m, body_name) ==
    IF body_name \in BodyKeys(m) THEN "ValueError: Body already exists" ELSE ""

add_body(m, body_name, body) ==
    IF AddBodyError(m, body_name) # "" THEN [m EXCEPT !.bodies = Some(Bodies(m))]
    ELSE [m EXCEPT !.bodies = Some(DictSet(Bodies(m), body_name, body))]

\* SimViewBody.create: a body of the shape type, named body_name; a type
\* that is no BodyShapeType raises.
ShapeTypes == {"sphere", "box"}

BodyCreate(name, body_type) == [name |-> name, shape |-> body_type]

\* SimViewModel.create_body: the name is tested, then the body is made.
CreateBodyError(m, body_name, shape_type) ==
    IF body_name \in BodyKeys(m) THEN "ValueError: Body already exists"
    ELSE IF shape_type \notin ShapeTypes THEN "ValueError: Unknown body type"
    ELSE ""

create_body(m, body_name, shape_type) ==
    IF CreateBodyError(m, body_name, shape_type) # ""
    THEN [m EXCEPT !.bodies = Some(Bodies(m))]
    ELSE [m EXCEPT !.bodies =
            Some(DictSet(Bodies(m), body_name, BodyCreate(body_name, shape_type)))]

\* SimViewModel.create_terrain: a terrain made of the heightmap (B maps)
\* is stored, whatever terrain the model holds.
create_terrain(m, heightmap, B) ==
    [m EXCEPT !.terrain =
        Some([height_data |-> heightmap, is_singleton |-> (B = 1 /\ m.batch_size # 1)])]

\* Filler for the model section of a value that has none.
NoModelJson ==
    [batchSize |-> 0, scalarNames |-> None, dt |-> 0, collapse |-> FALSE,
     terrain |-> [heightData |-> 0, isSingleton |-> FALSE], bodies |-> <<>>]

\* ------------------------------------------------- values and JSON text
\* A Python value of a frame: kind is "num" (the time), "list", "tensor"
\* (torch.Tensor) or "ndarray" (any other array-like, which json cannot
\* write); data names its content.
PyVal(kind, data) == [kind |-> kind, data |-> data]

\* v.tolist() if isinstance(v, torch.Tensor) else v
TensorToList(v) == IF v.kind = "tensor" THEN PyVal("list", v.data) ELSE v

\* Whether json.dump can write the value (numbers and lists of numbers).
JsonSerializable(v) == v.kind \in {"num", "list"}

\* The JSON text of a value, and the Python value json.load reads back.
JsonEncodeValue(v) ==
    [kind |-> IF v.kind = "num" THEN "number" ELSE "array", data |-> v.data]
JsonDecodeValue(j) ==
    [kind |-> IF j.kind = "number" THEN "num" ELSE "list", data |-> j.data]

FrameSerializable(f) == \A k \in DOMAIN f : JsonSerializable(f[k])
JsonEncodeFrame(f) == [k \in DOMAIN f |-> JsonEncodeValue(f[k])]
JsonDecodeFrame(j) == [k \in DOMAIN j |-> JsonDecodeValue(j[k])]

\* A JSON text, possibly cut short: type "object" (keys are its top-level
\* keys) or "array" (keys are its string elements); closed says that the
\* closing bracket was written, i.e. that the text is complete.
JsonText(type, keys, model, states, closed) ==
    [type |-> type, keys |-> keys, model |-> model, states |-> states,
     closed |-> closed]
EmptyText == JsonText("object", {}, NoModelJson, <<>>, FALSE)

\* The number of frames of doc json.dump writes before it raises: all of
\* them when every frame is serializable.
RECURSIVE WritableFrames(_)
WritableFrames(frames) ==
    IF Len(frames) = 0 \/ ~FrameSerializable(Head(frames)) THEN 0
    ELSE 1 + WritableFrames(Tail(frames))

\* The chunks json.dump writes for {"model": ..., "states": [...]}: one
\* for the model section, one per frame, one closing the text.
NChunks(doc) == 2 + Len(doc.states)

\* The text in the file after the first n chunks of doc were written.
TextPrefix(doc, n) ==
    IF n = 0 THEN EmptyText
    ELSE JsonText("object",
                  IF n = 1 THEN {"model"} ELSE {"model", "states"},
                  doc.model,
                  [i \in 1..(IF n - 1 < Len(doc.states) THEN n - 1 ELSE Len(doc.states))
                      |-> JsonEncodeFrame(doc.states[i])],
                  n = NChunks(doc))

\* json.load of a text: JSONDecodeError unless the text is complete; an
\* object becomes a dict, an array a list.
JsonLoadFails(text) == ~text.closed
JsonLoad(text) ==
    [type |-> IF text.type = "object" THEN "dict" ELSE "list",
     keys |-> text.keys, model |-> text.model,
     states |-> [i \in 1..Len(text.states) |-> JsonDecodeFrame(text.states[i])]]

\* Python's `key in data` on what json.load returned: a key of a dict, an
\* element of a list.
In(key, data) == key \in data.keys

\* data[key] raises TypeError on a list (and KeyError on a missing key).
SubscriptFails(data, key) == data.type # "dict" \/ key \notin data.keys

\* ------------------------------------------------------------ the files
CACHE_DIR == ".simview_cache"
HomeCache == "~/.cache/.simview_cache"
TmpCache == "/tmp/.simview_cache"
ExtPath == <<"cwd", "sim">>
CachePaths == {<<d, n>> : d \in {HomeCache, TmpCache}, n \in Names}
Paths == CachePaths \cup {ExtPath}

NoFile == [exists |-> FALSE, text |-> EmptyText]
FileOf(text) == [exists |-> TRUE, text |-> text]

\* ------------------------------------------------------------ the state
VARIABLES
    runs,     \* run id -> the SimView object in that slot
    fs,       \* path -> the file at that path
    servers,  \* server id -> the SimViewServer started by run id (0: started directly)
    hist,     \* run id -> what happened to the run (history, read by no operation)
    finalized,\* the cache paths a visualize wrote a whole artifact to (history)
    last,     \* the most recent call: operation, object, outcome, events emitted
    visualizer, \* the Visualizer of app.py, and the first payloads it emitted (history)
    clients   \* client id -> its connection, and what it sent and received on it (history)

vars == <<runs, fs, servers, hist, finalized, last, visualizer, clients>>

ServerIds == {0} \cup RunIds

\* ------------------------------------------------------ SimView.__init__
\* SimView._make_cache_path: under the home cache when use_cache, else /tmp.
make_cache_path(name, use_cache) ==
    <<IF use_cache THEN HomeCache ELSE TmpCache, name>>

\* Faulty variant: the cache is used when use_cache is not set.
CacheHitInverted(file, use_cache) == file.exists /\ ~use_cache

\* The test of __init__: the cache file exists and use_cache is set.
CacheHit(file, use_cache) == file.exists /\ use_cache

NoRun ==
    [constructed |-> FALSE, run_name |-> "", use_cache |-> FALSE,
     cache_path |-> <<"", "">>, file |-> None, model |-> None, states |-> None]

\* The object __init__ leaves: on a cache hit _file is the cache path and
\* model and states are None; otherwise a fresh model and no frames.
SimViewInit(run_name, scalar_names, terrain, bodies, use_cache, files) ==
    LET path == make_cache_path(run_name, use_cache) IN
    IF CacheHit(files[path], use_cache)
    THEN [constructed |-> TRUE, run_name |-> run_name, use_cache |-> use_cache,
          cache_path |-> path, file |-> Some(path), model |-> None, states |-> None]
    ELSE [constructed |-> TRUE, run_name |-> run_name, use_cache |-> use_cache,
          cache_path |-> path, file |-> None,
          model |-> Some(SimViewModel(1, scalar_names, 1, FALSE, terrain,
                                      Some(IF IsNone(bodies) THEN <<>> ELSE Get(bodies)))),
          states |-> Some(<<>>)]

\* SimView.is_ready
is_ready(run) ==
    \/ ~IsNone(run.file)
    \/ /\ ~IsNone(run.model)
       /\ ~IsNone(run.states)
       /\ Len(Get(run.states)) > 0
       /\ is_complete(Get(run.model))

\* ----------------------------------------------------- SimView.add_state
\* Faulty variant: the key set is only tested to lie within the declared names.
AddStateErrorSubset(run, scalar_values) ==
    IF ~IsNone(run.file)
    THEN "ValueError: Cannot add state after starting server or loading from cache"
    ELSE IF IsNone(run.model) \/ IsNone(run.states)
    THEN "ValueError: Model and states not initialized. Cannot add state."
    ELSE IF IsNone(Get(run.model).scalar_names) THEN ""
    ELSE IF IsNone(scalar_values)
    THEN "AssertionError: Scalar values must be provided"
    ELSE IF ~(DOMAIN Get(scalar_values)
                 \subseteq {Get(Get(run.model).scalar_names)[i] :
                               i \in 1..Len(Get(Get(run.model).scalar_names))})
    THEN "AssertionError: Scalar values do not match model"
    ELSE ""

\* The exception add_state raises, "" when it appends the frame.
AddStateError(run, scalar_values) ==
    IF ~IsNone(run.file)
    THEN "ValueError: Cannot add state after starting server or loading from cache"
    ELSE IF IsNone(run.model) \/ IsNone(run.states)
    THEN "ValueError: Model and states not initialized. Cannot add state."
    ELSE IF IsNone(Get(run.model).scalar_names) THEN ""
    ELSE IF IsNone(scalar_values)
    THEN "AssertionError: Scalar values must be provided"
    ELSE IF DOMAIN Get(scalar_values)
            # {Get(Get(run.model).scalar_names)[i] :
                   i \in 1..Len(Get(Get(run.model).scalar_names))}
    THEN "AssertionError: Scalar values do not match model"
    ELSE ""

\* scalars: the given values with tensors made lists, {} when the model
\* has no scalar names.
Scalars(run, scalar_values) ==
    IF IsNone(Get(run.model).scalar_names) THEN <<>>
    ELSE [k \in DOMAIN Get(scalar_values) |-> TensorToList(Get(scalar_values)[k])]

\* {"time": time, "bodies": [...], **scalars}: a later key replaces an
\* earlier one of the same name.
Frame(time, nbodies, scalars) ==
    [k \in {"time", "bodies"} \cup DOMAIN scalars |->
        IF k \in DOMAIN scalars THEN scalars[k]
        ELSE IF k = "time" THEN PyVal("num", time)
        ELSE PyVal("list", nbodies)]

\* The run after add_state: unchanged when it raised.
AddStateRun(run, time, nbodies, scalar_values) ==
    IF AddStateError(run, scalar_values) # "" THEN run
    ELSE [run EXCEPT !.states =
            Some(Append(Get(run.states),
                        Frame(time, nbodies, Scalars(run, scalar_values))))]

\* -------------------------------------------------------- SimViewServer
preferred_port == 5420

NoData == [type |-> "none", keys |-> {}, model |-> NoModelJson, states |-> <<>>]

\* A server slot. read, probed and text are history: whether construction
\* opened the file, whether start probed for a port, the text it loaded.
NoServer ==
    [status |-> "none", sim_data |-> NoData, port |-> 0, via |-> "",
     read |-> FALSE, probed |-> FALSE, text |-> EmptyText]

\* _load_data_from_file: the exception it raises, "" when it returns.
LoadError(file) ==
    IF ~file.exists THEN "FileNotFoundError"
    ELSE IF JsonLoadFails(file.text) THEN "JSONDecodeError"
    ELSE IF ~In("model", JsonLoad(file.text)) \/ ~In("states", JsonLoad(file.text))
    THEN "ValueError: Simulation file must contain 'model' and 'states' keys."
    ELSE ""

\* Faulty variant: only the missing source is refused.
InvalidSourceNeitherOnly(sim_dict, sim_path) == IsNone(sim_dict) /\ IsNone(sim_path)

\* The first check of SimViewServer.__init__: exactly one source.
InvalidSource(sim_dict, sim_path) ==
    \/ IsNone(sim_dict) /\ IsNone(sim_path)
    \/ ~IsNone(sim_dict) /\ ~IsNone(sim_path)

\* SimViewServer.__init__: the exception it raises, "" when it returns.
ServerInitError(sim_dict, sim_path, files) ==
    IF InvalidSource(sim_dict, sim_path)
    THEN "ValueError: Either sim_dict or sim_path must be provided, but not both."
    ELSE IF ~IsNone(sim_dict)
    THEN IF ~In("model", Get(sim_dict)) \/ ~In("states", Get(sim_dict))
         THEN "ValueError: sim_dict must contain 'model' and 'states' keys."
         ELSE ""
    ELSE LoadError(files[Get(sim_path)])

\* Whether __init__ got as far as opening the file at sim_path.
ServerInitReads(sim_dict, sim_path, files) ==
    /\ ~InvalidSource(sim_dict, sim_path)
    /\ IsNone(sim_dict)
    /\ files[Get(sim_path)].exists

\* find_free_port: the first port from base_port on that no listening
\* server of the model holds.
find_free_port(base_port, srvs) ==
    CHOOSE p \in base_port..(base_port + Cardinality(ServerIds)) :
        /\ \A s \in ServerIds : srvs[s].status = "listening" => srvs[s].port # p
        /\ \A q \in base_port..(p - 1) :
              \E s \in ServerIds : srvs[s].status = "listening" /\ srvs[s].port = q

\* SimViewServer.start: the server it leaves running, or the failed
\* attempt when __init__ raised (nothing probed, nothing listening).
ServerStart(sim_path, sim_dict, files, srvs, via) ==
    IF ServerInitError(sim_dict, sim_path, files) # ""
    THEN [NoServer EXCEPT !.status = "failed", !.via = via,
                          !.read = ServerInitReads(sim_dict, sim_path, files)]
    ELSE [status |-> "listening",
          sim_data |-> IF ~IsNone(sim_dict) THEN Get(sim_dict)
                       ELSE JsonLoad(files[Get(sim_path)].text),
          port |-> find_free_port(preferred_port, srvs),
          via |-> via,
          read |-> ServerInitReads(sim_dict, sim_path, files),
          probed |-> TRUE,
          text |-> IF ~IsNone(sim_dict) THEN EmptyText
                   ELSE files[Get(sim_path)].text]

\* An emitted socket event: its name and payload.
Event(event, model, states, message) ==
    [event |-> event, model |-> model, states |-> states, message |-> message]

\* socketio.emit writes its payload as JSON (the SocketIO object is given
\* json=json): it raises on frames json cannot write.
EmitFails(states) == \E i \in 1..Len(states) : ~FrameSerializable(states[i])

\* handle_get_model: emit the model section, or the error event when
\* taking it raised.
HandleGetModel(sim_data) ==
    IF SubscriptFails(sim_data, "model")
    THEN <<Event("error", NoModelJson, <<>>, "Error loading model")>>
    ELSE <<Event("model", sim_data.model, <<>>, "")>>

\* Faulty variant: a failure in handle_get_states is not caught.
HandleGetStatesUncaught(sim_data) ==
    IF SubscriptFails(sim_data, "states") \/ EmitFails(sim_data.states)
    THEN <<>>
    ELSE <<Event("states", NoModelJson, sim_data.states, "")>>

\* handle_get_states
HandleGetStates(sim_data) ==
    IF SubscriptFails(sim_data, "states") \/ EmitFails(sim_data.states)
    THEN <<Event("error", NoModelJson, <<>>, "Error loading states")>>
    ELSE <<Event("states", NoModelJson, sim_data.states, "")>>

\* ----------------------------------------------------------- clients
\* The clients that are followed one by one; other clients may send
\* requests too.
ClientIds == {1, 2}

\* A client: the server it is connected to, and, as history of that
\* connection, whether it sent a request and the names of the events it
\* received.
NoClient == [server |-> None, asked |-> FALSE, received |-> {}]

\* Who may send a request to server s: a followed client connected to it,
\* or another client (None).
Senders(cl, s) == {None} \cup {Some(c) : c \in {x \in ClientIds : cl[x].server = Some(s)}}

\* Faulty variant: the event goes to the client that sent the request.
RecipientsSenderOnly(cl, s, sender) ==
    {c \in ClientIds : cl[c].server = Some(s) /\ sender = Some(c)}

\* self.socketio.emit(event, data) names no recipient: the event goes to
\* every client connected to the server.
Recipients(cl, s, sender) == {c \in ClientIds : cl[c].server = Some(s)}

\* The clients after a request of sender was handled and its events were
\* emitted.
Deliver(cl, s, sender, events) ==
    [c \in ClientIds |->
        [cl[c] EXCEPT
           !.asked = @ \/ sender = Some(c),
           !.received = IF c \in Recipients(cl, s, sender)
                        THEN @ \cup {events[i].event : i \in 1..Len(events)}
                        ELSE @]]

\* ------------------------------------------------- Visualizer (app.py)
visualizer_port == 5000

\* The Visualizer keeps the path only; model_sent and states_sent are
\* history: the first model and states payloads this instance emitted.
NoVisualizer ==
    [status |-> "none", simulation_path |-> None, port |-> 0,
     model_sent |-> None, states_sent |-> None]

\* Visualizer(simulation_path) and run(): nothing is opened or checked.
VisualizerInit(simulation_path) ==
    [status |-> "listening", simulation_path |-> Some(simulation_path),
     port |-> visualizer_port, model_sent |-> None, states_sent |-> None]

\* open(...) and json.load(file) of a handler of the Visualizer: whether
\* they raise.
VisualizerLoadFails(file) == ~file.exists \/ JsonLoadFails(file.text)

\* Visualizer.handle_get_model: the file is read again on every request.
VisualizerGetModel(file) ==
    IF VisualizerLoadFails(file) \/ SubscriptFails(JsonLoad(file.text), "model")
    THEN <<Event("error", NoModelJson, <<>>, "Error loading model")>>
    ELSE <<Event("model", JsonLoad(file.text).model, <<>>, "")>>

\* Visualizer.handle_get_states
VisualizerGetStates(file) ==
    IF VisualizerLoadFails(file) \/ SubscriptFails(JsonLoad(file.text), "states")
    THEN <<Event("error", NoModelJson, <<>>, "Error loading states")>>
    ELSE <<Event("states", NoModelJson, JsonLoad(file.text).states, "")>>

\* ----------------------------------------------------- SimView.visualize
IoOutcomes == {"ok", "open_fails", "write_fails"}

\* complete_json of visualize
Document(run) ==
    [model |-> ModelToJson(Get(run.model)), states |-> Get(run.states)]

\* The chunks json.dump gets written: all of them, or those before the
\* first frame it cannot write, or k of them when the device fails first.
ChunksWritten(doc, io, k) ==
    LET w == WritableFrames(doc.states)
        byType == IF w = Len(doc.states) THEN NChunks(doc) ELSE 1 + w
    IN IF io = "write_fails" /\ k < byType THEN k ELSE byType

\* Which way the first half of visualize goes.
SaveOutcome(run, io, k) ==
    IF ~IsNone(run.file) THEN "pass"
    ELSE IF IsNone(run.model) \/ IsNone(run.states) THEN "no_data"
    ELSE IF ModelToJsonError(Get(run.model)) # "" THEN "to_json_failed"
    ELSE IF io = "open_fails" THEN "open_failed"
    ELSE IF ChunksWritten(Document(run), io, k) < NChunks(Document(run))
    THEN "dump_failed"
    ELSE "saved"

\* Faulty variant: a save that neither records the file nor releases the model.
VisualizeRunForgets(run, io, k) == run

\* Faulty variant: _file is assigned before the model is serialized.
VisualizeRunAssignsFirst(run, io, k) ==
    LET o == SaveOutcome(run, io, k) IN
    IF o \in {"to_json_failed", "open_failed", "dump_failed"}
    THEN [run EXCEPT !.file = Some(run.cache_path)]
    ELSE IF o = "saved"
    THEN [run EXCEPT !.file = Some(run.cache_path), !.model = None, !.states = None]
    ELSE run

\* The run after the first half: _file is assigned before the file is
\* opened, model and states are released after the dump.
VisualizeRun(run, io, k) ==
    LET o == SaveOutcome(run, io, k) IN
    IF o \in {"open_failed", "dump_failed"}
    THEN [run EXCEPT !.file = Some(run.cache_path)]
    ELSE IF o = "saved"
    THEN [run EXCEPT !.file = Some(run.cache_path), !.model = None, !.states = None]
    ELSE run

\* Faulty variant: the file is opened for writing before _file is tested.
VisualizeFileOpensFirst(run, file, io, k) ==
    IF SaveOutcome(run, io, k) \in {"dump_failed", "saved"}
    THEN FileOf(TextPrefix(Document(run), ChunksWritten(Document(run), io, k)))
    ELSE IF SaveOutcome(run, io, k) = "pass" THEN FileOf(EmptyText)
    ELSE file

\* The cache file after the first half: open(.., "w") empties it, the dump
\* writes into it.
VisualizeFile(run, file, io, k) ==
    IF SaveOutcome(run, io, k) \in {"dump_failed", "saved"}
    THEN FileOf(TextPrefix(Document(run), ChunksWritten(Document(run), io, k)))
    ELSE file

\* Whether visualize goes on to start the server.
VisualizeServes(run, files, io, k) ==
    /\ SaveOutcome(run, io, k) \in {"pass", "saved"}
    /\ ~IsNone(VisualizeRun(run, io, k).file)
    /\ files[Get(VisualizeRun(run, io, k).file)].exists

\* --------------------------------------------------------------- inputs
Terrain == [height_data |-> 1, is_singleton |-> FALSE]
Hills == [height_data |-> 2, is_singleton |-> FALSE]
Terrains == {Terrain, Hills}
Ball == Item("ball", [name |-> "ball", shape |-> "sphere"])
BodyNames == {"ball", "crate"}
BodyChoices == {[name |-> "ball", shape |-> "sphere"], [name |-> "crate", shape |-> "box"]}
ScalarValues(names, kinds) ==
    {None, Some(<<>>)}
    \cup {Some([k \in {n} |-> PyVal(kind, 5)]) : n \in names, kind \in kinds}

\* -------------------------------------------------------------- history
NoHist ==
    [from_cache |-> FALSE, times |-> <<>>, saved |-> FALSE, save_failed |-> FALSE,
     refused |-> FALSE]

\* What a call was given: whether scalar_values (add_state) or sim_dict
\* (start) was given, whether sim_path was, the keys of scalar_values.
Arg(given, path, keys) == [given |-> given, path |-> path, keys |-> keys]
NoArg == Arg(FALSE, FALSE, {})

Call(op, id, arg, outcome, raised, emitted) ==
    [op |-> op, id |-> id, arg |-> arg, outcome |-> outcome, raised |-> raised,
     emitted |-> emitted]

\* ----------------------------------------------------------------- Init
Init ==
    /\ runs = [r \in RunIds |-> NoRun]
    /\ fs = [p \in Paths |-> NoFile]
    /\ servers = [s \in ServerIds |-> NoServer]
    /\ hist = [r \in RunIds |-> NoHist]
    /\ finalized = {}
    /\ last = Call("", 0, NoArg, "", FALSE, <<>>)
    /\ visualizer = NoVisualizer
    /\ clients = [c \in ClientIds |-> NoClient]

\* The process that called visualize is inside SimViewServer.run for as
\* long as the server it started listens.
Blocked(r) == servers[r].status = "listening"

\* ------------------------------------------------------------- operations
\* SimView(run_name, ..., use_cache): a new object in slot r.
ConstructIn(r, scalarChoices, terrainChoices, bodiesChoices) ==
    /\ ~Blocked(r)
    /\ \E run_name \in Names, scalar_names \in scalarChoices,
          terrain \in terrainChoices, bodies \in bodiesChoices,
          use_cache \in BOOLEAN :
         /\ runs' = [runs EXCEPT ![r] =
                SimViewInit(run_name, scalar_names, terrain, bodies, use_cache, fs)]
         /\ hist' = [hist EXCEPT ![r] =
                [NoHist EXCEPT !.from_cache =
                    fs[make_cache_path(run_name, use_cache)].exists /\ use_cache]]
    /\ servers' = [servers EXCEPT ![r] = NoServer]
    /\ last' = Call("init", r, NoArg, "", FALSE, <<>>)
    /\ UNCHANGED <<fs, finalized, visualizer, clients>>

\* run.add_state(time, body_states, scalar_values)
AddStateIn(r, times, valueChoices) ==
    /\ runs[r].constructed
    /\ ~Blocked(r)
    /\ \E time \in times, nbodies \in {1}, scalar_values \in valueChoices :
         LET err == AddStateError(runs[r], scalar_values) IN
         /\ err = "" => Len(Get(runs[r].states)) < MaxFrames
         /\ runs' = [runs EXCEPT ![r] = AddStateRun(@, time, nbodies, scalar_values)]
         /\ hist' = [hist EXCEPT ![r].times = IF err = "" THEN Append(@, time) ELSE @]
         /\ last' = Call("add_state", r,
                         Arg(~IsNone(scalar_values), FALSE,
                             IF IsNone(scalar_values) THEN {} ELSE DOMAIN Get(scalar_values)),
                         err, err # "", <<>>)
    /\ UNCHANGED <<fs, servers, finalized, visualizer, clients>>

\* run.visualize(): save when Building, then start the server on _file.
\* io and k are what the file system does to the write.
Visualize(r) ==
    /\ runs[r].constructed
    /\ ~Blocked(r)
    /\ \E io \in IoOutcomes, k \in 0..(MaxFrames + 1) :
         LET run == runs[r]
             o == SaveOutcome(run, io, k)
             after == VisualizeRun(run, io, k)
             files == [fs EXCEPT ![run.cache_path] = VisualizeFile(run, @, io, k)]
             serves == VisualizeServes(run, files, io, k)
             srv == ServerStart(after.file, None, files, servers,
                                IF o = "saved" THEN "finalize" ELSE "cached")
         IN
         /\ io = "write_fails" => o = "dump_failed" /\ k = ChunksWritten(Document(run), io, k)
         /\ io = "open_fails" => o = "open_failed"
         /\ runs' = [runs EXCEPT ![r] = after]
         /\ fs' = files
         /\ servers' = [servers EXCEPT ![r] = IF serves THEN srv ELSE @]
         /\ finalized' = IF o = "saved" THEN finalized \cup {run.cache_path} ELSE finalized
         /\ hist' = [hist EXCEPT ![r].saved = @ \/ o = "saved",
                                 ![r].save_failed = @ \/ o \in {"open_failed", "dump_failed"},
                                 ![r].refused = @ \/ o = "to_json_failed"]
         /\ last' = Call("visualize", r, NoArg,
                         IF serves THEN (IF srv.status = "listening" THEN "serving"
                                         ELSE ServerInitError(None, after.file, files))
                         ELSE IF o \in {"pass", "saved"} THEN "file_not_found"
                         ELSE o,
                         serves /\ srv.status # "listening", <<>>)
    /\ UNCHANGED <<visualizer, clients>>

\* The server stops listening (it is interrupted) and visualize returns.
StopServer(s) ==
    /\ servers[s].status = "listening"
    /\ servers' = [servers EXCEPT ![s].status = "stopped"]
    /\ clients' = [c \in ClientIds |->
                      IF clients[c].server = Some(s) THEN NoClient ELSE clients[c]]
    /\ last' = Call("stop", s, NoArg, "", FALSE, <<>>)
    /\ UNCHANGED <<runs, fs, hist, finalized, visualizer>>

\* A client sends get_model to server s: one of the clients that are
\* followed (sender is Some(c)) or any other client (None).
GetModel(s) ==
    /\ servers[s].status = "listening"
    /\ \E sender \in Senders(clients, s) :
         clients' = Deliver(clients, s, sender, HandleGetModel(servers[s].sim_data))
    /\ last' = Call("get_model", s, NoArg, "", FALSE, HandleGetModel(servers[s].sim_data))
    /\ UNCHANGED <<runs, fs, servers, hist, finalized, visualizer>>

\* A client sends get_states to server s.
GetStates(s) ==
    /\ servers[s].status = "listening"
    /\ \E sender \in Senders(clients, s) :
         clients' = Deliver(clients, s, sender, HandleGetStates(servers[s].sim_data))
    /\ last' = Call("get_states", s, NoArg, "", FALSE, HandleGetStates(servers[s].sim_data))
    /\ UNCHANGED <<runs, fs, servers, hist, finalized, visualizer>>

\* Client c opens a connection to server s (handle_connect only logs).
Connect(c, s) ==
    /\ servers[s].status = "listening"
    /\ IsNone(clients[c].server)
    /\ clients' = [clients EXCEPT ![c] = [NoClient EXCEPT !.server = Some(s)]]
    /\ last' = Call("connect", s, NoArg, "", FALSE, <<>>)
    /\ UNCHANGED <<runs, fs, servers, hist, finalized, visualizer>>

\* Client c closes its connection (handle_disconnect only logs).
Disconnect(c) ==
    /\ ~IsNone(clients[c].server)
    /\ clients' = [clients EXCEPT ![c] = NoClient]
    /\ last' = Call("disconnect", Get(clients[c].server), NoArg, "", FALSE, <<>>)
    /\ UNCHANGED <<runs, fs, servers, hist, finalized, visualizer>>

\* python -m simview clear: every file under both cache roots is removed.
Clear ==
    /\ \E p \in CachePaths : fs[p].exists
    /\ fs' = [p \in Paths |-> IF p \in CachePaths THEN NoFile ELSE fs[p]]
    /\ last' = Call("clear", 0, NoArg, "", FALSE, <<>>)
    /\ UNCHANGED <<runs, servers, hist, finalized, visualizer, clients>>

\* The model of run r can be operated on: the run is Building.
HasModel(r) == runs[r].constructed /\ ~Blocked(r) /\ ~IsNone(runs[r].model)

\* run.model.add_terrain(terrain)
AddTerrain(r) ==
    /\ HasModel(r)
    /\ \E terrain \in Terrains :
         /\ runs' = [runs EXCEPT ![r].model = Some(add_terrain(Get(@), terrain))]
         /\ last' = Call("add_terrain", r, NoArg, AddTerrainError(Get(runs[r].model)),
                         AddTerrainError(Get(runs[r].model)) # "", <<>>)
    /\ UNCHANGED <<fs, servers, hist, finalized, visualizer, clients>>

\* run.model.add_body(body_name, body)
AddBody(r) ==
    /\ HasModel(r)
    /\ \E body_name \in BodyNames, body \in BodyChoices :
         /\ runs' = [runs EXCEPT ![r].model = Some(add_body(Get(@), body_name, body))]
         /\ last' = Call("add_body", r, Arg(TRUE, FALSE, {body_name}),
                         AddBodyError(Get(runs[r].model), body_name),
                         AddBodyError(Get(runs[r].model), body_name) # "", <<>>)
    /\ UNCHANGED <<fs, servers, hist, finalized, visualizer, clients>>

\* run.model.create_body(body_name, shape_type)
CreateBody(r) ==
    /\ HasModel(r)
    /\ \E body_name \in BodyNames, shape_type \in ShapeTypes \cup {"cone"} :
         /\ runs' = [runs EXCEPT ![r].model =
                        Some(create_body(Get(@), body_name, shape_type))]
         /\ last' = Call("create_body", r, Arg(TRUE, FALSE, {body_name}),
                         CreateBodyError(Get(runs[r].model), body_name, shape_type),
                         CreateBodyError(Get(runs[r].model), body_name, shape_type) # "",
                         <<>>)
    /\ UNCHANGED <<fs, servers, hist, finalized, visualizer, clients>>

\* run.model.create_terrain(heightmap, normals, x_lim, y_lim)
CreateTerrain(r) ==
    /\ HasModel(r)
    /\ \E terrain \in Terrains :
         /\ runs' = [runs EXCEPT ![r].model =
                        Some(create_terrain(Get(@), terrain.height_data, 1))]
         /\ last' = Call("create_terrain", r, NoArg, "", FALSE, <<>>)
    /\ UNCHANGED <<fs, servers, hist, finalized, visualizer, clients>>

\* run.model.to_json()
ToJson(r) ==
    /\ HasModel(r)
    /\ last' = Call("to_json", r, NoArg, ModelToJsonError(Get(runs[r].model)),
                    ModelToJsonError(Get(runs[r].model)) # "", <<>>)
    /\ UNCHANGED <<runs, fs, servers, hist, finalized, visualizer, clients>>

\* ------------------------------------------- the run lifecycle (Spec)
\* Runs of one scalar channel, built, saved, reloaded from the cache and
\* served, one object after the other in each slot.
Construct(r) ==
    ConstructIn(r, {Some(<<"energy">>)}, {Some(Terrain)}, {None, Some(<<Ball>>)})

AddState(r) == AddStateIn(r, {0}, ScalarValues({"energy"}, {"list"}))

Next ==
    \/ \E r \in RunIds : Construct(r)
    \/ \E r \in RunIds : AddState(r)
    \/ \E r \in RunIds : Visualize(r)
    \/ \E r \in RunIds : StopServer(r)
    \/ \E r \in RunIds : GetModel(r)
    \/ \E r \in RunIds : GetStates(r)
    \/ Clear

Spec == Init /\ [][Next]_vars

\* ------------------------------ frames and the round trip (SpecFrames)
\* One run, every declared scalar-name set, every kind of scalar value.
ConstructF ==
    /\ ~runs[1].constructed
    /\ ConstructIn(1, {None, Some(<<>>), Some(<<"energy">>), Some(<<"time">>)},
                   {Some(Terrain)}, {Some(<<Ball>>)})

AddStateF ==
    AddStateIn(1, Times, ScalarValues({"energy"}, {"list", "tensor", "ndarray"})
                         \cup ScalarValues({"time", "foo"}, {"list"}))

NextFrames ==
    \/ ConstructF
    \/ AddStateF
    \/ Visualize(1)
    \/ StopServer(1)
    \/ GetModel(1)
    \/ GetStates(1)

SpecFrames == Init /\ [][NextFrames]_vars

\* ------------------------------------ the scene model (SpecModel)
\* One run built without a cache; its model is given terrain and bodies
\* before and after frames are appended and visualize is called.
ConstructM ==
    /\ ~runs[1].constructed
    /\ ConstructIn(1, {None}, {None, Some(Terrain)}, {None, Some(<<Ball>>)})
    /\ ~runs'[1].use_cache

AddStateM == AddStateIn(1, {0}, {None})

NextModel ==
    \/ ConstructM
    \/ AddTerrain(1)
    \/ AddBody(1)
    \/ CreateBody(1)
    \/ CreateTerrain(1)
    \/ ToJson(1)
    \/ AddStateM
    \/ Visualize(1)
    \/ StopServer(1)

SpecModel == Init /\ [][NextModel]_vars

\* ------------------------------------- the server alone (SpecServer)
\* python -m simview.server --sim_path FILE, or SimViewServer.start called
\* with a document, on whatever the file or the document holds.
DocText(n) ==
    JsonText("object", {"model", "states"},
             ModelToJson(SimViewModel(1, Some(<<>>), 1, FALSE, Some(Terrain), Some(<<Ball>>))),
             [i \in 1..n |-> JsonEncodeFrame(Frame(i - 1, 1, <<>>))], TRUE)

ExtTexts ==
    {DocText(n) : n \in 0..MaxFrames}
    \cup {TextPrefix([model |-> DocText(n).model,
                      states |-> [i \in 1..n |-> Frame(i - 1, 1, <<>>)]], k) :
             n \in 0..MaxFrames, k \in 0..1}
    \cup {JsonText("object", {}, NoModelJson, <<>>, TRUE),
          JsonText("object", {"model"}, DocText(0).model, <<>>, TRUE),
          JsonText("object", {"states"}, NoModelJson, DocText(1).states, TRUE)}
    \cup {JsonText("array", ks, NoModelJson, <<>>, TRUE) :
             ks \in {{}, {"model"}, {"model", "states"}}}

\* A document given in memory may hold values json cannot write.
TensorDict ==
    [type |-> "dict", keys |-> {"model", "states"}, model |-> DocText(0).model,
     states |-> <<Frame(0, 1, [energy |-> PyVal("ndarray", 5)])>>]

DictChoices ==
    {None, Some(TensorDict)}
    \cup {Some(JsonLoad(t)) : t \in {x \in ExtTexts : x.closed /\ x.type = "object"}}

InitServer ==
    /\ runs = [r \in RunIds |-> NoRun]
    /\ fs \in {[p \in Paths |-> IF p = ExtPath THEN f ELSE NoFile] :
                  f \in {NoFile} \cup {FileOf(t) : t \in ExtTexts}}
    /\ servers = [s \in ServerIds |-> NoServer]
    /\ hist = [r \in RunIds |-> NoHist]
    /\ finalized = {}
    /\ last = Call("", 0, NoArg, "", FALSE, <<>>)
    /\ visualizer = NoVisualizer
    /\ clients = [c \in ClientIds |-> NoClient]

\* SimViewServer.start(sim_path, sim_dict)
StartIn(pathChoices, dictChoices) ==
    /\ servers[0].status # "listening"
    /\ \E sim_path \in pathChoices, sim_dict \in dictChoices :
         LET srv == ServerStart(sim_path, sim_dict, fs, servers, "direct") IN
         /\ servers' = [servers EXCEPT ![0] = srv]
         /\ last' = Call("start", 0, Arg(~IsNone(sim_dict), ~IsNone(sim_path), {}),
                         ServerInitError(sim_dict, sim_path, fs),
                         srv.status # "listening", <<>>)
    /\ UNCHANGED <<runs, fs, hist, finalized, visualizer, clients>>

StartDirect == StartIn({None, Some(ExtPath)}, DictChoices)

\* python src/app.py FILE: a Visualizer on the file, listening.
StartVisualizer ==
    /\ visualizer.status # "listening"
    /\ visualizer' = VisualizerInit(ExtPath)
    /\ last' = Call("app_start", 0, Arg(FALSE, TRUE, {}), "", FALSE, <<>>)
    /\ UNCHANGED <<runs, fs, servers, hist, finalized, clients>>

\* The Visualizer is interrupted.
StopVisualizer ==
    /\ visualizer.status = "listening"
    /\ visualizer' = [visualizer EXCEPT !.status = "stopped"]
    /\ last' = Call("app_stop", 0, NoArg, "", FALSE, <<>>)
    /\ UNCHANGED <<runs, fs, servers, hist, finalized, clients>>

\* A client sends get_model to the Visualizer.
AppGetModel ==
    /\ visualizer.status = "listening"
    /\ LET out == VisualizerGetModel(fs[Get(visualizer.simulation_path)]) IN
       /\ last' = Call("app_get_model", 0, NoArg, "", FALSE, out)
       /\ visualizer' =
             IF out[1].event = "model" /\ IsNone(visualizer.model_sent)
             THEN [visualizer EXCEPT !.model_sent = Some(out[1].model)]
             ELSE visualizer
    /\ UNCHANGED <<runs, fs, servers, hist, finalized, clients>>

\* A client sends get_states to the Visualizer.
AppGetStates ==
    /\ visualizer.status = "listening"
    /\ LET out == VisualizerGetStates(fs[Get(visualizer.simulation_path)]) IN
       /\ last' = Call("app_get_states", 0, NoArg, "", FALSE, out)
       /\ visualizer' =
             IF out[1].event = "states" /\ IsNone(visualizer.states_sent)
             THEN [visualizer EXCEPT !.states_sent = Some(out[1].states)]
             ELSE visualizer
    /\ UNCHANGED <<runs, fs, servers, hist, finalized, clients>>

\* Another process writes the file anew, or removes it.
RewriteFile ==
    /\ \E f \in {NoFile} \cup {FileOf(t) : t \in ExtTexts} :
         /\ f # fs[ExtPath]
         /\ fs' = [fs EXCEPT ![ExtPath] = f]
    /\ last' = Call("rewrite", 0, NoArg, "", FALSE, <<>>)
    /\ UNCHANGED <<runs, servers, hist, finalized, visualizer, clients>>

NextServer ==
    \/ StartDirect
    \/ StopServer(0)
    \/ GetModel(0)
    \/ GetStates(0)
    \/ StartVisualizer
    \/ StopVisualizer
    \/ AppGetModel
    \/ AppGetStates
    \/ RewriteFile

SpecServer == InitServer /\ [][NextServer]_vars

\* ------------------------------ several clients (SpecClients)
\* One server started on a file, two clients that connect, send requests
\* and disconnect, and the requests of other clients.
InitClients ==
    /\ runs = [r \in RunIds |-> NoRun]
    /\ fs \in {[p \in Paths |-> IF p = ExtPath THEN FileOf(t) ELSE NoFile] :
                  t \in {DocText(n) : n \in 0..MaxFrames}
                        \cup {JsonText("array", {"model", "states"}, NoModelJson, <<>>, TRUE)}}
    /\ servers = [s \in ServerIds |-> NoServer]
    /\ hist = [r \in RunIds |-> NoHist]
    /\ finalized = {}
    /\ last = Call("", 0, NoArg, "", FALSE, <<>>)
    /\ visualizer = NoVisualizer
    /\ clients = [c \in ClientIds |-> NoClient]

StartOnFile == StartIn({Some(ExtPath)}, {None})

NextClients ==
    \/ StartOnFile
    \/ StopServer(0)
    \/ \E c \in ClientIds : Connect(c, 0)
    \/ \E c \in ClientIds : Disconnect(c)
    \/ GetModel(0)
    \/ GetStates(0)

SpecClients == InitClients /\ [][NextClients]_vars

\* =========================================================== properties

\* C1: add_state on a run that was constructed from a cache hit, or on
\* which visualize has persisted the artifact, raises and leaves the
\* run's frames, model and artifact reference as they were.
C1_AddStateOnlyWhileBuilding ==
    [][\A r \in RunIds :
         (last'.op = "add_state" /\ last'.id = r
            /\ (hist[r].from_cache \/ hist[r].saved))
         => /\ last'.raised
            /\ runs'[r].states = runs[r].states
            /\ runs'[r].model = runs[r].model
            /\ runs'[r].file = runs[r].file]_vars

\* An add_state call was rejected on a run that visualize had persisted.
C1_Witness ==
    /\ last.op = "add_state"
    /\ last.raised
    /\ hist[1].saved
    /\ servers[1].status = "stopped"

\* C2: after N >= 1 accepted add_state calls and a visualize that saved,
\* the document the server loaded has N frames, in append order, and the
\* i-th frame's "time" is the time passed to the i-th call.
C2_RoundTrip ==
    \A r \in RunIds :
        (servers[r].status = "listening" /\ servers[r].via = "finalize"
           /\ Len(hist[r].times) >= 1)
        => /\ Len(servers[r].sim_data.states) = Len(hist[r].times)
           /\ \A i \in 1..Len(hist[r].times) :
                 /\ "time" \in DOMAIN servers[r].sim_data.states[i]
                 /\ servers[r].sim_data.states[i]["time"] = PyVal("num", hist[r].times[i])

\* The same for the runs whose model declares no scalar channel named
\* after a key of the frame itself: for these the round trip holds.
C2_RoundTripUnlessTimeChannel ==
    \A r \in RunIds :
        (servers[r].status = "listening" /\ servers[r].via = "finalize"
           /\ Len(hist[r].times) >= 1
           /\ \/ IsNone(servers[r].sim_data.model.scalarNames)
              \/ \A j \in 1..Len(Get(servers[r].sim_data.model.scalarNames)) :
                    Get(servers[r].sim_data.model.scalarNames)[j] \notin {"time", "bodies"})
        => /\ Len(servers[r].sim_data.states) = Len(hist[r].times)
           /\ \A i \in 1..Len(hist[r].times) :
                 /\ "time" \in DOMAIN servers[r].sim_data.states[i]
                 /\ servers[r].sim_data.states[i]["time"] = PyVal("num", hist[r].times[i])

\* Two frames with different times were saved and loaded back.
C2_Witness ==
    /\ servers[1].status = "listening"
    /\ servers[1].via = "finalize"
    /\ hist[1].times = <<1, 0>>
    /\ Len(servers[1].sim_data.states) = 2

\* C3: a run constructed on a cache hit holds no model and no frames and
\* references the cache path for as long as it lives (it is never
\* Building, no add_state is ever accepted), and what the server started
\* by its visualize holds and emits is, written back as JSON, the model
\* and states sections of the text it read at the cache path.
C3_CacheHitServesStoredDocument ==
    \A r \in RunIds :
        hist[r].from_cache
        => /\ IsNone(runs[r].model)
           /\ IsNone(runs[r].states)
           /\ runs[r].file = Some(make_cache_path(runs[r].run_name, TRUE))
           /\ hist[r].times = <<>>
           /\ ~hist[r].saved
           /\ servers[r].status = "listening"
              => /\ servers[r].text.closed
                 /\ servers[r].sim_data.model = servers[r].text.model
                 /\ [i \in 1..Len(servers[r].sim_data.states) |->
                        JsonEncodeFrame(servers[r].sim_data.states[i])]
                    = servers[r].text.states
           /\ (last.op = "get_model" /\ last.id = r)
              => /\ Len(last.emitted) = 1
                 /\ last.emitted[1].event = "model"
                 /\ last.emitted[1].model = servers[r].text.model
           /\ (last.op = "get_states" /\ last.id = r)
              => /\ Len(last.emitted) = 1
                 /\ last.emitted[1].event = "states"
                 /\ [i \in 1..Len(last.emitted[1].states) |->
                        JsonEncodeFrame(last.emitted[1].states[i])]
                    = servers[r].text.states

\* A run loaded from the cache serves the frames an earlier run saved.
C3_Witness ==
    /\ hist[1].from_cache
    /\ servers[1].status = "listening"
    /\ last.op = "get_states"
    /\ Len(last.emitted[1].states) = MaxFrames
    /\ fs[runs[1].cache_path].text = servers[1].text

\* C4: a run whose visualize failed to write (and that never wrote an
\* artifact itself) has no artifact reference, still holds its model and
\* frames, and no server was started for it.
C4_FailedWriteStaysBuilding ==
    \A r \in RunIds :
        (hist[r].save_failed /\ ~hist[r].saved)
        => /\ IsNone(runs[r].file)
           /\ ~IsNone(runs[r].model)
           /\ ~IsNone(runs[r].states)
           /\ servers[r].status \notin {"listening", "stopped"}

\* What the code does instead: after a failed write the run references
\* the cache path, so a later visualize serves the file another run left
\* there.
C4_ServesAfterFailedWrite ==
    /\ hist[1].save_failed
    /\ ~hist[1].saved
    /\ servers[1].status = "listening"

\* A complete {model, states} document.
WellFormed(text) ==
    text.closed /\ text.type = "object" /\ text.keys = {"model", "states"}

\* C5: every cache path holds no file or one complete {model, states}
\* document, and no run constructed with use_cache references a file
\* that is not one.
C5_ArtifactWrittenAtomically ==
    /\ \A p \in CachePaths : fs[p].exists => WellFormed(fs[p].text)
    /\ \A r \in RunIds :
          (last.op = "init" /\ last.id = r /\ runs[r].use_cache /\ ~IsNone(runs[r].file))
          => WellFormed(fs[Get(runs[r].file)].text)

\* What the code does instead: a run constructed with use_cache enters
\* Serving on the cut-short file a failed finalize left.
C5_ServingOnPartialFile ==
    /\ last.op = "init"
    /\ hist[1].from_cache
    /\ ~WellFormed(fs[runs[1].cache_path].text)

\* C6: once a run has finalized under a name with use_cache, every later
\* SimView constructed with that name and use_cache loads the artifact
\* instead of building, and no add_state or visualize call on such a
\* later run changes a file.
C6_MemoizedByRunName ==
    [][\A r \in RunIds :
         /\ (last'.op = "init" /\ last'.id = r /\ runs'[r].use_cache
               /\ runs'[r].cache_path \in finalized)
            => /\ ~IsNone(runs'[r].file)
               /\ IsNone(runs'[r].model)
               /\ IsNone(runs'[r].states)
         /\ (last'.op \in {"add_state", "visualize"} /\ last'.id = r
               /\ runs[r].use_cache /\ runs[r].cache_path \in finalized
               /\ ~hist[r].saved)
            => fs' = fs]_vars

\* C6 as amended: every SimView constructed with use_cache while a file
\* is present at the cache path of its name references that file and
\* builds nothing, and no add_state or visualize call on a run that was
\* constructed so changes a file.
C6_MemoizedWhileFilePresent ==
    [][\A r \in RunIds :
         /\ (last'.op = "init" /\ last'.id = r /\ runs'[r].use_cache
               /\ fs[<<HomeCache, runs'[r].run_name>>].exists)
            => /\ runs'[r].file = Some(<<HomeCache, runs'[r].run_name>>)
               /\ IsNone(runs'[r].model)
               /\ IsNone(runs'[r].states)
         /\ (last'.op \in {"add_state", "visualize"} /\ last'.id = r
               /\ hist[r].from_cache)
            => fs' = fs]_vars

\* A run loaded the artifact an earlier run of its name had finalized, and
\* its visualize served it.
C6_Witness ==
    /\ hist[1].from_cache
    /\ runs[1].cache_path \in finalized
    /\ last.op = "visualize"
    /\ last.outcome = "serving"
    /\ WellFormed(fs[runs[1].cache_path].text)

\* The scalar names the model of a Building run declares, as a set.
Declared(run) ==
    {Get(Get(run.model).scalar_names)[i] :
        i \in 1..Len(Get(Get(run.model).scalar_names))}

\* C7: when the model declares scalar names, add_state with scalar_values
\* missing, or with a key set other than the declared set, raises and
\* leaves the frame sequence as it was.
C7_ScalarMismatchAppendsNothing ==
    [][\A r \in RunIds :
         (/\ last'.op = "add_state" /\ last'.id = r
          /\ ~IsNone(runs[r].model)
          /\ ~IsNone(Get(runs[r].model).scalar_names)
          /\ (~last'.arg.given \/ last'.arg.keys # Declared(runs[r])))
         => /\ last'.raised
            /\ runs'[r].states = runs[r].states]_vars

\* A call with the key {"foo"} was rejected on a run that declares
\* ["energy"] and already holds a frame.
C7_Witness ==
    /\ last.op = "add_state"
    /\ last.arg.keys = {"foo"}
    /\ last.raised
    /\ ~IsNone(runs[1].model)
    /\ Get(runs[1].model).scalar_names = Some(<<"energy">>)
    /\ Len(Get(runs[1].states)) = 1

\* C8: SimViewServer.start given both a document and a path, or neither,
\* raises before any file is read, any port is probed and any listener is
\* opened.
C8_ExactlyOneSource ==
    (last.op = "start" /\ last.arg.given = last.arg.path)
    => /\ last.raised
       /\ last.outcome = "ValueError: Either sim_dict or sim_path must be provided, but not both."
       /\ ~servers[last.id].read
       /\ ~servers[last.id].probed
       /\ servers[last.id].status = "failed"
       /\ servers[last.id].port = 0

\* start was given a valid document and the path of a valid file, both.
C8_Witness ==
    /\ last.op = "start"
    /\ last.arg.given
    /\ last.arg.path
    /\ last.raised
    /\ fs[ExtPath].exists
    /\ WellFormed(fs[ExtPath].text)

\* C9: every server that listens holds a document with both keys: a dict
\* with the keys "model" and "states".
C9_NoDegradedServing ==
    \A s \in ServerIds :
        servers[s].status = "listening"
        => /\ servers[s].sim_data.type = "dict"
           /\ {"model", "states"} \subseteq servers[s].sim_data.keys

\* What holds of the code: a missing file, a text that does not parse and
\* an object that lacks "model" or "states" stop the construction.
C9_ObjectFilesValidated ==
    (last.op = "start" /\ ~last.arg.given /\ last.arg.path
       /\ ( \/ ~fs[ExtPath].exists
            \/ ~fs[ExtPath].text.closed
            \/ (fs[ExtPath].text.type = "object"
                  /\ ~({"model", "states"} \subseteq fs[ExtPath].text.keys))))
    => last.raised /\ servers[0].status = "failed"

\* C10: a get_model request makes the server emit one model event with
\* the model section of its document, a get_states request one states
\* event with the states section; the document is not changed.
C10_RequestResponse ==
    [][\A s \in ServerIds :
         /\ (last'.op = "get_model" /\ last'.id = s)
            => /\ Len(last'.emitted) = 1
               /\ last'.emitted[1].event = "model"
               /\ last'.emitted[1].model = servers[s].sim_data.model
               /\ servers'[s] = servers[s]
         /\ (last'.op = "get_states" /\ last'.id = s)
            => /\ Len(last'.emitted) = 1
               /\ last'.emitted[1].event = "states"
               /\ last'.emitted[1].states = servers[s].sim_data.states
               /\ servers'[s] = servers[s]]_vars

\* C11: every get_model / get_states request, of the SimViewServer and of
\* the Visualizer, is answered with exactly one event; when taking or
\* emitting the section fails that event is `error` with a message; and
\* the server listens after the request as before, so that the same
\* holds of every later request.
C11_ErrorsArePerRequest ==
    [][/\ \A s \in ServerIds :
            (last'.op \in {"get_model", "get_states"} /\ last'.id = s)
            => /\ Len(last'.emitted) = 1
               /\ last'.emitted[1].event \in {"model", "states", "error"}
               /\ last'.emitted[1].event = "error" => last'.emitted[1].message # ""
               /\ (SubscriptFails(servers[s].sim_data,
                                  IF last'.op = "get_model" THEN "model" ELSE "states")
                     \/ (last'.op = "get_states" /\ EmitFails(servers[s].sim_data.states)))
                  => last'.emitted[1].event = "error"
               /\ servers[s].status = "listening"
               /\ servers'[s].status = "listening"
       /\ (last'.op \in {"app_get_model", "app_get_states"})
            => /\ Len(last'.emitted) = 1
               /\ last'.emitted[1].event \in {"model", "states", "error"}
               /\ last'.emitted[1].event = "error" => last'.emitted[1].message # ""
               /\ VisualizerLoadFails(fs[ExtPath]) => last'.emitted[1].event = "error"
               /\ visualizer.status = "listening"
               /\ visualizer'.status = "listening"]_vars

\* A get_states request failed on emission (the document was given in
\* memory with a value json cannot write): the error event was emitted
\* and the server listens.
C11_Witness ==
    /\ last.op = "get_states"
    /\ last.emitted[1].event = "error"
    /\ last.emitted[1].message = "Error loading states"
    /\ servers[0].status = "listening"
    /\ servers[0].sim_data = TensorDict

\* C12: all model payloads one server instance emits are equal, and all
\* its states payloads are: a SimViewServer emits the sections of the
\* document it holds, which no step changes while it listens, and the
\* Visualizer emits what it emitted first, whatever happens to the file.
C12_IdenticalViewOfOneArtifact ==
    [][/\ \A s \in ServerIds :
            /\ (servers[s].status = "listening" /\ servers'[s].status = "listening")
               => servers'[s].sim_data = servers[s].sim_data
            /\ (last'.op = "get_model" /\ last'.id = s
                  /\ last'.emitted[1].event = "model")
               => last'.emitted[1].model = servers[s].sim_data.model
            /\ (last'.op = "get_states" /\ last'.id = s
                  /\ last'.emitted[1].event = "states")
               => last'.emitted[1].states = servers[s].sim_data.states
       /\ (last'.op = "app_get_model" /\ last'.emitted[1].event = "model")
            => last'.emitted[1].model = Get(visualizer'.model_sent)
       /\ (last'.op = "app_get_states" /\ last'.emitted[1].event = "states")
            => last'.emitted[1].states = Get(visualizer'.states_sent)]_vars

\* What holds of the code: the SimViewServer reads the file at
\* construction only; its payloads are the sections of the text it loaded
\* then, whatever the file holds at the time of the request.
C12_SimViewServerServesLoadedDocument ==
    \A s \in ServerIds :
        (servers[s].status = "listening" /\ servers[s].read)
        => /\ servers[s].sim_data = JsonLoad(servers[s].text)
           /\ (last.op = "get_model" /\ last.id = s /\ last.emitted[1].event = "model")
              => last.emitted[1].model = servers[s].text.model
           /\ (last.op = "get_states" /\ last.id = s /\ last.emitted[1].event = "states")
              => last.emitted[1].states = JsonLoad(servers[s].text).states

\* What the code does instead: the Visualizer emitted a states payload
\* that differs from the one it emitted first.
C12_VisualizerViewsDiffer ==
    /\ last.op = "app_get_states"
    /\ last.emitted[1].event = "states"
    /\ ~IsNone(visualizer.states_sent)
    /\ last.emitted[1].states # Get(visualizer.states_sent)

\* C13: add_terrain on a model that holds a terrain, and add_body or
\* create_body with a name that is a key of bodies, raise and leave the
\* terrain and the bodies (every item, their number and order) as they
\* were.
C13_DuplicatesRefused ==
    [][\A r \in RunIds :
         /\ (last'.op = "add_terrain" /\ last'.id = r
               /\ ~IsNone(Get(runs[r].model).terrain))
            => /\ last'.raised
               /\ runs'[r].model = runs[r].model
         /\ (last'.op \in {"add_body", "create_body"} /\ last'.id = r
               /\ last'.arg.keys \subseteq BodyKeys(Get(runs[r].model)))
            => /\ last'.raised
               /\ runs'[r].model = runs[r].model]_vars

\* add_body was refused for the name "ball" on a model that holds the
\* body made by create_body under that name, and a second body.
C13_Witness ==
    /\ last.op = "add_body"
    /\ last.arg.keys = {"ball"}
    /\ last.raised
    /\ ~IsNone(runs[1].model)
    /\ Len(Bodies(Get(runs[1].model))) = 2
    /\ Bodies(Get(runs[1].model))[2] = Item("ball", BodyCreate("ball", "box"))

\* C14: on every model reached by add_terrain, add_body, create_body and
\* create_terrain calls, to_json raises exactly when is_complete is
\* false; when it returns, the document has the keys terrain and bodies,
\* one entry per body; neither changes the model. The to_json call inside
\* visualize fails on the same models.
C14_ToJsonIffComplete ==
    [][\A r \in RunIds :
         /\ (last'.op = "to_json" /\ last'.id = r)
            => /\ last'.raised <=> ~is_complete(Get(runs[r].model))
               /\ ~last'.raised
                  => /\ {"terrain", "bodies"} \subseteq DOMAIN ModelToJson(Get(runs[r].model))
                     /\ Len(ModelToJson(Get(runs[r].model)).bodies)
                        = Len(Bodies(Get(runs[r].model)))
               /\ runs' = runs
         /\ (last'.op = "visualize" /\ last'.id = r /\ IsNone(runs[r].file)
               /\ ~IsNone(runs[r].model))
            => (last'.outcome = "to_json_failed" <=> ~is_complete(Get(runs[r].model)))]_vars

\* to_json returned the document of a model that was given its terrain by
\* create_terrain and holds two bodies.
C14_Witness ==
    /\ last.op = "to_json"
    /\ ~last.raised
    /\ Get(runs[1].model).terrain = Some(Hills)
    /\ Len(Bodies(Get(runs[1].model))) = 2

\* The run references an artifact a server can be constructed on.
Serving(r) ==
    /\ ~IsNone(runs[r].file)
    /\ LoadError(fs[Get(runs[r].file)]) = ""

\* C15: is_ready is true exactly of the runs that are Serving and of the
\* Building runs with at least one frame and a complete model.
C15_ReadyIffServingOrComplete ==
    \A r \in RunIds :
        runs[r].constructed
        => (is_ready(runs[r])
            <=> \/ Serving(r)
                \/ /\ IsNone(runs[r].file)
                   /\ ~IsNone(runs[r].model) /\ ~IsNone(runs[r].states)
                   /\ Len(Get(runs[r].states)) >= 1
                   /\ is_complete(Get(runs[r].model)))

\* What the code does instead: after a visualize whose open failed the
\* run is ready although nothing is at its cache path.
C15_ReadyWithoutArtifact ==
    /\ last.op = "visualize"
    /\ hist[1].save_failed
    /\ ~hist[1].saved
    /\ is_ready(runs[1])
    /\ ~fs[runs[1].cache_path].exists

\* C16: a visualize call on a Building run that fails to serialize the
\* model or to write the artifact raises to its caller.
C16_FinalizeFailurePropagates ==
    (last.op = "visualize"
       /\ last.outcome \in {"to_json_failed", "open_failed", "dump_failed"})
    => last.raised

\* What the code does instead: every such call returns normally, and no
\* server is started by it.
C16_FinalizeFailureSwallowed ==
    (last.op = "visualize"
       /\ last.outcome \in {"to_json_failed", "open_failed", "dump_failed"})
    => /\ ~last.raised
       /\ servers[last.id].status # "listening"

\* The error add_state raises on a run that was loaded from the cache.
CacheLoadedError ==
    AddStateError(SimViewInit(CHOOSE n \in Names : TRUE, None, None, None, TRUE,
                              [p \in Paths |-> FileOf(DocText(0))]),
                  None)

\* C17: the error add_state raises on a run that was built and persisted
\* by visualize differs from the one it raises on a run that was loaded
\* from the cache.
C17_DistinctLifecycleErrors ==
    \A r \in RunIds :
        (last.op = "add_state" /\ last.id = r /\ last.raised
           /\ hist[r].saved /\ ~hist[r].from_cache)
        => last.outcome # CacheLoadedError

\* C18: a terrain a model holds is never replaced: no step changes the
\* terrain of a model that has one.
C18_TerrainNeverReplaced ==
    [][\A r \in RunIds :
         (/\ runs[r].constructed /\ runs'[r].constructed
          /\ last'.op \in {"add_terrain", "create_terrain", "add_body", "create_body",
                            "to_json", "add_state"}
          /\ ~IsNone(runs[r].model)
          /\ ~IsNone(Get(runs[r].model).terrain))
         => Get(runs'[r].model).terrain = Get(runs[r].model).terrain]_vars

\* What holds of the code: every operation but create_terrain leaves a
\* terrain in place.
C18_OnlyCreateTerrainReplaces ==
    [][\A r \in RunIds :
         (/\ runs[r].constructed /\ runs'[r].constructed
          /\ last'.op \in {"add_terrain", "add_body", "create_body", "to_json", "add_state"}
          /\ ~IsNone(runs[r].model)
          /\ ~IsNone(Get(runs[r].model).terrain))
         => Get(runs'[r].model).terrain = Get(runs[r].model).terrain]_vars

\* The model of a Building run declares no scalar name: scalar_names is
\* None or the empty list.
DeclaresNoScalars(run) ==
    \/ IsNone(Get(run.model).scalar_names)
    \/ Len(Get(Get(run.model).scalar_names)) = 0

\* C19: on a Building run whose model declares no scalar names, add_state
\* without scalar_values appends one frame with the keys time and bodies.
C19_NoScalarsNoValuesNeeded ==
    [][\A r \in RunIds :
         (/\ last'.op = "add_state" /\ last'.id = r
          /\ IsNone(runs[r].file)
          /\ ~IsNone(runs[r].model) /\ ~IsNone(runs[r].states)
          /\ DeclaresNoScalars(runs[r])
          /\ ~last'.arg.given)
         => /\ ~last'.raised
            /\ Len(Get(runs'[r].states)) = Len(Get(runs[r].states)) + 1
            /\ DOMAIN Get(runs'[r].states)[Len(Get(runs'[r].states))]
               = {"time", "bodies"}]_vars

\* What holds of the code: the same when scalar_names is None.
C19_NoneNamesNoValuesNeeded ==
    [][\A r \in RunIds :
         (/\ last'.op = "add_state" /\ last'.id = r
          /\ IsNone(runs[r].file)
          /\ ~IsNone(runs[r].model) /\ ~IsNone(runs[r].states)
          /\ IsNone(Get(runs[r].model).scalar_names)
          /\ ~last'.arg.given)
         => /\ ~last'.raised
            /\ Len(Get(runs'[r].states)) = Len(Get(runs[r].states)) + 1
            /\ DOMAIN Get(runs'[r].states)[Len(Get(runs'[r].states))]
               = {"time", "bodies"}]_vars

\* What the code does instead: with scalar_names [] the call is refused.
C19_EmptyNamesRefused ==
    /\ last.op = "add_state"
    /\ ~last.arg.given
    /\ last.outcome = "AssertionError: Scalar values must be provided"
    /\ ~IsNone(runs[1].model)
    /\ Get(runs[1].model).scalar_names = Some(<<>>)

\* C20: visualize on a Building run whose model is incomplete changes no
\* file, starts no server and leaves the run as it was (no artifact
\* reference, the model and every frame kept); and the visualize that
\* saves after the model was completed hands the server every frame
\* appended before and after the refused call.
C20_IncompleteVisualizeHasNoEffect ==
    [][\A r \in RunIds :
         /\ (/\ last'.op = "visualize" /\ last'.id = r
             /\ IsNone(runs[r].file)
             /\ ~IsNone(runs[r].model) /\ ~IsNone(runs[r].states)
             /\ ~is_complete(Get(runs[r].model)))
            => /\ fs' = fs
               /\ servers' = servers
               /\ runs' = runs
               /\ IsNone(runs'[r].file)
         /\ (/\ last'.op = "visualize" /\ last'.id = r
             /\ hist[r].refused
             /\ last'.outcome = "serving"
             /\ ~IsNone(runs[r].states))
            => /\ servers'[r].sim_data.states = Get(runs[r].states)
               /\ Len(servers'[r].sim_data.states) = Len(hist[r].times)]_vars

\* A run whose visualize was refused for the missing body was given the
\* body, and its next visualize serves the frames appended before.
C20_Witness ==
    /\ last.op = "visualize"
    /\ last.outcome = "serving"
    /\ hist[1].refused
    /\ ~hist[1].save_failed
    /\ Len(servers[1].sim_data.states) = MaxFrames
    /\ fs[runs[1].cache_path].exists

\* C21: a visualize call writes the artifact, or starts the server, only
\* on a run for which is_ready was true before the call.
C21_VisualizeOnlyWhenReady ==
    [][\A r \in RunIds :
         (/\ last'.op = "visualize" /\ last'.id = r
          /\ \/ hist'[r].saved /\ ~hist[r].saved
             \/ last'.outcome = "serving")
         => is_ready(runs[r])]_vars

\* C21 as amended: a visualize call writes the artifact, or starts the
\* server, only on a run that references an artifact already or whose
\* model is complete; the frames are not counted, and the document the
\* server is given holds the frames of the run, none when none was
\* appended.
C21_VisualizeOnlyWhenComplete ==
    [][\A r \in RunIds :
         /\ (/\ last'.op = "visualize" /\ last'.id = r
             /\ \/ hist'[r].saved /\ ~hist[r].saved
                \/ last'.outcome = "serving")
            => \/ ~IsNone(runs[r].file)
               \/ /\ ~IsNone(runs[r].model) /\ ~IsNone(runs[r].states)
                  /\ is_complete(Get(runs[r].model))
         /\ (/\ last'.op = "visualize" /\ last'.id = r
             /\ hist'[r].saved /\ ~hist[r].saved
             /\ last'.outcome = "serving")
            => /\ servers'[r].sim_data.states = Get(runs[r].states)
               /\ Len(servers'[r].sim_data.states) = Len(hist[r].times)]_vars

\* A run with a complete model and no frame was persisted and is served
\* with an empty states list.
C21_Witness ==
    /\ last.op = "visualize"
    /\ last.outcome = "serving"
    /\ hist[1].saved
    /\ hist[1].times = <<>>
    /\ servers[1].via = "finalize"
    /\ servers[1].sim_data.states = <<>>
    /\ WellFormed(fs[runs[1].cache_path].text)

\* C22: a client that has sent no get_model / get_states request on its
\* connection has received no model, states or error event on it.
C22_EventsOnlyToTheRequester ==
    \A c \in ClientIds :
        (~IsNone(clients[c].server) /\ ~clients[c].asked)
        => clients[c].received = {}

\* C22 as amended: the events a get_model / get_states request makes the
\* server emit are delivered to every client connected to that server at
\* the time, whichever client sent the request, and to no other client;
\* and a client receives an event only in a step in which some client
\* sent a request to the server it is connected to.
C22_EventsToEveryConnectedClient ==
    [][\A c \in ClientIds :
         /\ (last'.op \in {"get_model", "get_states"}
               /\ clients[c].server = Some(last'.id))
            => /\ clients'[c].server = clients[c].server
               /\ clients'[c].received
                  = clients[c].received
                    \cup {last'.emitted[i].event : i \in 1..Len(last'.emitted)}
         /\ ~(last'.op \in {"get_model", "get_states"}
                /\ clients[c].server = Some(last'.id))
            => clients'[c].received \subseteq clients[c].received]_vars

\* Client 1 is connected and has sent nothing; it holds the model event
\* the server emitted for the request of client 2.
C22_Witness ==
    /\ last.op = "get_model"
    /\ clients[1].server = Some(0)
    /\ ~clients[1].asked
    /\ clients[1].received = {"model"}
    /\ clients[2].server = Some(0)
    /\ clients[2].asked
    /\ clients[2].received = {"model"}

====
